---- MODULE Spec2Model ----
(***************************************************************************)
(* A model of kilpkonn/blackjack: the card supply (Deck of blackjack.py    *)
(* and of deck.py), the Hand queries, and GameController.play_round.       *)
(*                                                                         *)
(* The specifications share the variables:                                 *)
(*   Spec      rounds of GameController.play_round on one deck,            *)
(*   SpecDeep  the same on a longer pile of fewer values,                  *)
(*   SpecLive  the same with one paying player, under weak fairness,       *)
(*   SpecHand  a Hand that grows by add_card, its properties read after    *)
(*             every call,                                                 *)
(*   SpecDeck  a Deck (of either file) under draw_card and shuffle.        *)
(***************************************************************************)
EXTENDS Integers, Sequences, FiniteSets, TLC

VARIABLES
    \* ---- GameController (blackjack.py:195-200) and Player (167-173)
    players,         \* GameController.players: the player ids, in list order
    coins,           \* Player.coins, per player
    hands,           \* Player.hands, per player: a sequence of Hand records
    active_players,  \* GameController.active_players
    house,           \* GameController.house
    house_cards,     \* play_round's local house_cards (blackjack.py:261)
    deck,            \* GameController.deck, or the Deck under test in SpecDeck
    \* ---- the position of play_round
    pc,              \* "idle" | "turn" | "reveal" | "dealer" | "settle" | "raised"
    pi,              \* index into active_players of the player whose turn it is
    hi,              \* index into that player's hands of the hand being played
    si,              \* index into active_players of the player being settled
    move,            \* play_round's local move (blackjack.py:273)
    result,          \* what the last call of play_round returned
    error,           \* the exception the last call raised, or "none"
    paid,            \* per player, the amount settlement added for each hand
    arg,             \* the index in player.hands of the hand last passed to
                     \* player.play_move (blackjack.py:273), 0 before the first
    tick,            \* the passes of "while playing" made for the hand being
                     \* played, modulo 2
    turns,           \* per player, the indices of the hands whose "while
                     \* playing" loop has ended, in the order they ended
    notified,        \* per player, the on_game_end calls received this round
    \* ---- SpecHand
    hand,            \* the Hand under test
    observed,        \* its properties as read after the last add_card
    \* ---- SpecDeck
    op,              \* the last call made on the deck
    card,            \* what the last draw_card returned
    drawn,           \* the number of draw_card calls that returned a card
    remote           \* what the last call's request got: "none" without one

vars == <<players, coins, hands, active_players, house, house_cards, deck,
          pc, pi, hi, si, move, result, error, paid, arg, tick, turns,
          notified, hand, observed, op, card, drawn, remote>>

roundVars == <<players, coins, hands, active_players, house, house_cards,
               pc, pi, hi, si, move, result, paid, arg, tick, turns,
               notified>>

handVars == <<hand, observed>>

deckVars == <<op, card, drawn, remote>>

None == "None"

\* the absent card: what a draw returns in place of a Card
NoCard == [value |-> "None", suit |-> "None"]

(***************************************************************************)
(* Bounds of the model.                                                    *)
(***************************************************************************)
\* the longest Hand SpecHand builds
MaxHandLen == 4
\* SpecDeck creates decks of 1..MaxDecks packs
MaxDecks == 2
\* the cards left in the deck when Spec starts (a game in progress)
PileLen == 6
\* the players at the table in Spec
NumPlayers == 2

(***************************************************************************)
(* Card and Deck._generate_backup_pile.  A Card is its value and suit; its *)
(* code is a function of the two, and top_down is for display only         *)
(* (play_round never passes top_down=True).                                *)
(***************************************************************************)
values == <<"2", "3", "4", "5", "6", "7", "8", "9", "10",
            "JACK", "QUEEN", "KING", "ACE">>

suits == <<"SPADES", "DIAMONDS", "HEARTS", "CLUBS">>

Card(v, s) == [value |-> v, suit |-> s]

\* [Card(v, s, ...) for v in values for s in suits]
generate_backup_pile ==
    [i \in 1..(Len(values) * Len(suits)) |->
        Card(values[((i - 1) \div Len(suits)) + 1],
             suits[((i - 1) % Len(suits)) + 1])]

RECURSIVE Chain(_, _)
\* itertools.chain of n copies of pile
Chain(pile, n) == IF n = 0 THEN <<>> ELSE pile \o Chain(pile, n - 1)

Reverse(s) == [i \in 1..Len(s) |-> s[Len(s) + 1 - i]]

(***************************************************************************)
(* Hand (blackjack.py:107-161).                                            *)
(***************************************************************************)
NewHand(cards) == [cards |-> cards, is_double_down |-> FALSE,
                   is_surrendered |-> FALSE]

add_card(h, c) == [h EXCEPT !.cards = Append(@, c)]

double_down(h, c) == [add_card(h, c) EXCEPT !.is_double_down = TRUE]

can_split(h) ==
    Len(h.cards) = 2 /\ h.cards[1].value = h.cards[2].value

\* int(card.value) for the numeric values
IntValue(v) ==
    CASE v = "2" -> 2 [] v = "3" -> 3 [] v = "4" -> 4 [] v = "5" -> 5
      [] v = "6" -> 6 [] v = "7" -> 7 [] v = "8" -> 8 [] v = "9" -> 9
      [] v = "10" -> 10

\* one pass of the first loop of score (blackjack.py:152-158)
CardPoints(c) ==
    IF c.value = "JACK" \/ c.value = "QUEEN" \/ c.value = "KING" THEN 10
    ELSE IF c.value = "ACE" THEN 1
    ELSE IntValue(c.value)

RECURSIVE SumPoints(_)
SumPoints(cards) ==
    IF cards = <<>> THEN 0
    ELSE CardPoints(Head(cards)) + SumPoints(Tail(cards))

aces_count(cards) ==
    Cardinality({i \in DOMAIN cards : cards[i].value = "ACE"})

\* a plausible slip: the bonus is given only below 21
AceBonusStrict(s) == IF s + 10 < 21 THEN 10 ELSE 0

\* 10 if score + 10 <= 21 else 0 (blackjack.py:160)
AceBonus(s) == IF s + 10 <= 21 THEN 10 ELSE 0

RECURSIVE Promote(_, _)
\* for _ in range(aces_count): score += ...
Promote(s, n) == IF n = 0 THEN s ELSE Promote(s + AceBonus(s), n - 1)

score(h) == Promote(SumPoints(h.cards), aces_count(h.cards))

is_blackjack(h) == Len(h.cards) = 2 /\ score(h) = 21

\* max(cards, key=lambda x: x.value == 'ACE'): the first card with the
\* largest key, so the first ace if there is one and the first card if not
MaxByAce(cards) ==
    LET aces == {i \in DOMAIN cards : cards[i].value = "ACE"}
    IN  IF aces = {} THEN cards[1]
        ELSE cards[CHOOSE i \in aces : \A j \in aces : i <= j]

is_soft_hand(h) ==
    IF Len(h.cards) > 0 THEN MaxByAce(h.cards).value = "ACE" ELSE FALSE

\* the properties of a hand, each computed afresh
Properties(h) ==
    [score |-> score(h), is_blackjack |-> is_blackjack(h),
     is_soft_hand |-> is_soft_hand(h), can_split |-> can_split(h)]

(***************************************************************************)
(* What the other specifications leave untouched.                          *)
(***************************************************************************)
PlayerIds == 1..NumPlayers

NoRound ==
    /\ players = [i \in PlayerIds |-> i]
    /\ coins = [p \in PlayerIds |-> 0]
    /\ hands = [p \in PlayerIds |-> <<>>]
    /\ active_players = <<>>
    /\ house = NewHand(<<>>)
    /\ house_cards = <<>>
    /\ pc = "off"
    /\ pi = 0
    /\ hi = 0
    /\ si = 0
    /\ move = None
    /\ result = None
    /\ paid = [p \in PlayerIds |-> <<>>]
    /\ arg = 0
    /\ tick = 0
    /\ turns = [p \in PlayerIds |-> <<>>]
    /\ notified = [p \in PlayerIds |-> 0]

NoHand ==
    /\ hand = NewHand(<<>>)
    /\ observed = Properties(NewHand(<<>>))

NoDeck ==
    /\ op = "init"
    /\ card = NoCard
    /\ drawn = 0
    /\ remote = "none"

(***************************************************************************)
(* SpecHand: a Hand built by add_card, one card of each value at hand.     *)
(***************************************************************************)
TestCards == {Card(values[i], suits[1]) : i \in DOMAIN values}

InitHand ==
    /\ NoRound
    /\ NoDeck
    /\ deck = None
    /\ error = "none"
    /\ hand = NewHand(<<>>)
    /\ observed = Properties(hand)

AddCard(c) ==
    /\ Len(hand.cards) < MaxHandLen
    /\ hand' = add_card(hand, c)
    /\ observed' = Properties(hand')
    /\ UNCHANGED <<roundVars, deckVars, deck, error>>

NextHand == \E c \in TestCards : AddCard(c)

SpecHand == InitHand /\ [][NextHand]_vars


(***************************************************************************)
(* The reference total of claim C8, written from the claim and not from    *)
(* the code: ranks by their position in a pack, aces valued 1 or 11.       *)
(***************************************************************************)
RankOf(c) == CHOOSE i \in DOMAIN values : values[i] = c.value

IsAce(c) == RankOf(c) = 13

\* ranks 1..9 are the cards 2..10, ranks 10..12 the court cards
HardPoint(c) ==
    IF IsAce(c) THEN 1 ELSE IF RankOf(c) >= 10 THEN 10 ELSE RankOf(c) + 1

RECURSIVE HardTotal(_)
HardTotal(cards) ==
    IF Len(cards) = 0 THEN 0
    ELSE HardTotal(SubSeq(cards, 1, Len(cards) - 1)) + HardPoint(cards[Len(cards)])

NumAces(cards) == Cardinality({i \in 1..Len(cards) : IsAce(cards[i])})

\* every total obtainable by valuing each ace as 1 or 11
AceTotals(cards) == {HardTotal(cards) + 10 * k : k \in 0..NumAces(cards)}

RefScore(cards) ==
    LET fit == {t \in AceTotals(cards) : t <= 21}
    IN  IF fit = {} THEN HardTotal(cards)
        ELSE CHOOSE t \in fit : \A u \in fit : u <= t

\* an ace is counted as 11: the total uses the +10 bonus and is <= 21
RefSoft(cards) ==
    NumAces(cards) >= 1 /\ HardTotal(cards) + 10 <= 21

ValuesOf(cards) == [i \in 1..Len(cards) |-> cards[i].value]

(***************************************************************************)
(* C8. For every hand, Hand.score is the reference blackjack total (court  *)
(* cards 10, numeric cards their face value, aces 1 or 11: the largest     *)
(* total <= 21, or the all-aces-as-1 total when that exceeds 21);          *)
(* {ACE,ACE} scores 12, {ACE,KING} scores 21 and is a blackjack, and       *)
(* is_blackjack is true exactly for the 2-card hands that score 21.        *)
(***************************************************************************)
C8_ScoreIsReferenceTotal ==
    /\ observed.score = RefScore(hand.cards)
    /\ observed.is_blackjack <=>
           (Len(hand.cards) = 2 /\ RefScore(hand.cards) = 21)
    /\ ValuesOf(hand.cards) = <<"ACE", "ACE">> => observed.score = 12
    /\ ValuesOf(hand.cards) = <<"ACE", "KING">> =>
           (observed.score = 21 /\ observed.is_blackjack)

\* a hand of three aces and an eight: one ace counts 11, two count 1
C8_Witness ==
    /\ ValuesOf(hand.cards) = <<"ACE", "ACE", "8", "ACE">>
    /\ observed.score = 21
    /\ ~observed.is_blackjack

(***************************************************************************)
(* C9. For every hand, is_soft_hand is true if and only if the hand holds  *)
(* an ace that score counts as 11; a hand whose aces all count 1, such as  *)
(* {ACE,6,KING}, is not soft.                                              *)
(***************************************************************************)
C9_SoftIffAceCountsEleven ==
    observed.is_soft_hand <=> RefSoft(hand.cards)


(***************************************************************************)
(* Deck of blackjack.py (38-104).  Its id is None after __init__ and is    *)
(* assigned only in _request, which shuffle and draw_card reach only when  *)
(* id is already set: the deck never holds a session and always draws      *)
(* from _backup_deck.                                                      *)
(***************************************************************************)
PackSize == Len(values) * Len(suits)

\* Deck.__init__ of blackjack.py, pile being _backup_deck after the shuffle
NewDeck(deck_count, shuffle, pile) ==
    [module |-> "blackjack", deck_count |-> deck_count,
     is_shuffled |-> shuffle, id |-> None,
     backup_deck |-> pile, remaining |-> Len(pile)]

\* list.pop() of an empty list raises IndexError
draw_card(d) ==
    IF Len(d.backup_deck) = 0
    THEN [deck |-> d, card |-> NoCard, error |-> "IndexError"]
    ELSE [deck |-> [d EXCEPT
                      !.backup_deck = SubSeq(@, 1, Len(@) - 1),
                      !.remaining = Len(d.backup_deck) - 1],
          card |-> d.backup_deck[Len(d.backup_deck)],
          error |-> "none"]

RECURSIVE DrawCards(_, _)
\* n calls of draw_card one after the other, up to the first that raises
DrawCards(d, n) ==
    IF n = 0 THEN [deck |-> d, cards |-> <<>>, error |-> "none"]
    ELSE LET r == draw_card(d)
         IN  IF r.error # "none"
             THEN [deck |-> d, cards |-> <<>>, error |-> r.error]
             ELSE LET rest == DrawCards(r.deck, n - 1)
                  IN  [deck |-> rest.deck, cards |-> <<r.card>> \o rest.cards,
                       error |-> rest.error]

(***************************************************************************)
(* Deck of deck.py (31-90).  A remote answer is what requests.get(url)     *)
(* .json() gives, by kind: "raise" (the request or the JSON decoding       *)
(* raises), "nokey" (a JSON object without the key read first), "empty"    *)
(* (cards: []), or "card" (one card).                                      *)
(***************************************************************************)
\* Deck.__init__ of deck.py: answer is "nokey" or "ok"
NewDeckPy(deck_count, shuffle, answer) ==
    [module |-> "deck", deck_count |-> deck_count, is_shuffled |-> shuffle,
     id |-> IF answer = "ok" THEN "session" ELSE None,
     backup_deck |-> Chain(generate_backup_pile, deck_count),
     remaining |-> IF answer = "ok" THEN PackSize * deck_count ELSE -1]

\* the index of the first occurrence of c (list.remove takes that one)
IndexOf(pile, c) ==
    CHOOSE i \in 1..Len(pile) : pile[i] = c /\ \A j \in 1..(i - 1) : pile[j] # c

Remove(pile, c) ==
    LET k == IndexOf(pile, c)
    IN  SubSeq(pile, 1, k - 1) \o SubSeq(pile, k + 1, Len(pile))

InPile(pile, c) == \E i \in 1..Len(pile) : pile[i] = c

\* lines 66-78: c is the remote card, or NoCard for c = None
DrawLocalPy(d, c) ==
    LET found == c # NoCard /\ InPile(d.backup_deck, c)
        pile1 == IF found THEN Remove(d.backup_deck, c) ELSE d.backup_deck
    IN  IF found
        THEN [deck |-> [d EXCEPT !.backup_deck = pile1, !.remaining = Len(pile1)],
              card |-> c, error |-> "none"]
        ELSE IF Len(pile1) > 0
        THEN [deck |-> [d EXCEPT !.backup_deck = SubSeq(pile1, 1, Len(pile1) - 1),
                                 !.remaining = Len(pile1) - 1],
              card |-> pile1[Len(pile1)], error |-> "none"]
        ELSE [deck |-> d, card |-> NoCard, error |-> "none"]

draw_card_py(d, answer) ==
    IF d.id = None THEN DrawLocalPy(d, NoCard)
    ELSE IF answer.kind = "raise"
    THEN [deck |-> d, card |-> NoCard, error |-> "RequestException"]
    ELSE IF answer.kind = "nokey"
    THEN [deck |-> d, card |-> NoCard, error |-> "KeyError"]
    ELSE IF answer.kind = "empty"
    THEN [deck |-> d, card |-> NoCard, error |-> "IndexError"]
    ELSE DrawLocalPy(d, answer.card)

\* shuffle of deck.py: DECK_BASE_API + self.id is a TypeError without a
\* session; with one, the request's answer is dropped unless it raises
shuffle_py(d, answer) ==
    IF d.id = None THEN "TypeError"
    ELSE IF answer.kind = "raise" THEN "RequestException"
    ELSE "none"

(***************************************************************************)
(* SpecDeck: one Deck after its construction, under draw_card and shuffle. *)
(* random.shuffle may leave any order; the model takes two of them, the    *)
(* order as it is and its reverse.  The remote service answers with no     *)
(* card, with the card at the bottom of the local pile, or with a card     *)
(* the pile does not hold (a joker).                                       *)
(***************************************************************************)
Shuffles(pile) == {pile, Reverse(pile)}

Joker == Card("JOKER", "BLACK")

RemoteAnswers(d) ==
    {[kind |-> k, card |-> NoCard] : k \in {"raise", "nokey", "empty"}} \cup
    {[kind |-> "card", card |-> c] : c \in
        {Joker} \cup
        (IF Len(d.backup_deck) = 0 THEN {} ELSE {d.backup_deck[1]})}

InitDeck ==
    /\ NoRound
    /\ NoHand
    /\ op = "init"
    /\ card = NoCard
    /\ drawn = 0
    /\ remote = "none"
    /\ error = "none"
    /\ \E n \in 1..MaxDecks, shuffle \in BOOLEAN :
          \/ \E pile \in (IF shuffle
                          THEN Shuffles(Chain(generate_backup_pile, n))
                          ELSE {Chain(generate_backup_pile, n)}) :
                deck = NewDeck(n, shuffle, pile)
          \/ \E answer \in {"nokey", "ok"} :
                deck = NewDeckPy(n, shuffle, answer)

\* draw_card of blackjack.py
DeckDraw ==
    /\ deck.module = "blackjack"
    /\ LET r == draw_card(deck)
       IN  /\ deck' = r.deck
           /\ card' = r.card
           /\ error' = r.error
           /\ drawn' = IF r.error = "none" /\ r.card # NoCard
                       THEN drawn + 1 ELSE drawn
    /\ op' = "draw_card"
    /\ remote' = "none"
    /\ UNCHANGED <<roundVars, handVars>>

\* draw_card of deck.py
DeckDrawPy ==
    /\ deck.module = "deck"
    /\ \E answer \in (IF deck.id = None THEN {[kind |-> "unused"]}
                      ELSE RemoteAnswers(deck)) :
          LET r == draw_card_py(deck, answer)
          IN  /\ deck' = r.deck
              /\ card' = r.card
              /\ error' = r.error
              /\ drawn' = IF r.error = "none" /\ r.card # NoCard
                          THEN drawn + 1 ELSE drawn
              /\ remote' = IF deck.id = None THEN "none" ELSE answer.kind
    /\ op' = "draw_card"
    /\ UNCHANGED <<roundVars, handVars>>

\* shuffle of blackjack.py
DeckShuffle ==
    /\ deck.module = "blackjack"
    /\ \E pile \in Shuffles(deck.backup_deck) :
          deck' = [deck EXCEPT !.backup_deck = pile]
    /\ op' = "shuffle"
    /\ error' = "none"
    /\ remote' = "none"
    /\ UNCHANGED <<card, drawn, roundVars, handVars>>

\* shuffle of deck.py
DeckShufflePy ==
    /\ deck.module = "deck"
    /\ \E k \in {"raise", "other"} :
          /\ error' = shuffle_py(deck, [kind |-> k])
          /\ remote' = IF deck.id = None THEN "none" ELSE k
    /\ op' = "shuffle"
    /\ UNCHANGED <<deck, card, drawn, roundVars, handVars>>

NextDeck == DeckDraw \/ DeckDrawPy \/ DeckShuffle \/ DeckShufflePy

SpecDeck == InitDeck /\ [][NextDeck]_vars

(***************************************************************************)
(* C3. For every deck count N >= 1, after exactly 52*N successful calls of *)
(* draw_card on a freshly created deck the supply is empty (remaining = 0, *)
(* the local pile empty), and the next call of draw_card returns None      *)
(* rather than raising an error.                                           *)
(***************************************************************************)
C3_ExhaustedDrawReturnsNone ==
    (drawn = PackSize * deck.deck_count) =>
        /\ Len(deck.backup_deck) = 0
        /\ deck.remaining = 0
        /\ op = "draw_card" => error = "none"

(***************************************************************************)
(* C11. In every reachable state of a Deck, after its construction and     *)
(* after any sequence of draw_card and shuffle calls, on the local path    *)
(* and on the remote path with any remote response, remaining equals the   *)
(* number of cards in the local fallback pile.                             *)
(***************************************************************************)
C11_RemainingIsPileSize ==
    deck.remaining = Len(deck.backup_deck)

\* what holds of C11 on the code: the Deck of blackjack.py always keeps the
\* count, and the Deck of deck.py keeps it from the first card it returns
RemainingAfterADraw ==
    (deck.module = "blackjack" \/ drawn > 0) =>
        deck.remaining = Len(deck.backup_deck)

(***************************************************************************)
(* C12. When a Deck holds a remote session id and the remote call of a     *)
(* draw fails (the request raises, the body lacks the keys, or it reports  *)
(* no cards), draw_card neither raises nor returns the absent card while   *)
(* the local pile is non-empty: it returns the card popped from the local  *)
(* pile.                                                                   *)
(***************************************************************************)
C12_RemoteFailureFallsBack ==
    [][(/\ deck.id # None
        /\ op' = "draw_card"
        /\ remote' \in {"raise", "nokey", "empty"}
        /\ Len(deck.backup_deck) > 0) =>
          /\ error' = "none"
          /\ card' = deck.backup_deck[Len(deck.backup_deck)]
          /\ deck'.backup_deck =
                 SubSeq(deck.backup_deck, 1, Len(deck.backup_deck) - 1)]_vars


(***************************************************************************)
(* Player and GameController (blackjack.py:164-342).                       *)
(***************************************************************************)
BUY_IN_COST == 10

\* Hand.split: the hand keeps its first card, the new Hand takes the popped
split(h) == [kept |-> [h EXCEPT !.cards = SubSeq(@, 1, Len(@) - 1)],
             new |-> NewHand(<<h.cards[Len(h.cards)]>>)]

\* Player.split_hand on the i-th hand of hs (the hand is one of self.hands)
split_hand(hs, i) == Append([hs EXCEPT ![i] = split(hs[i]).kept], split(hs[i]).new)

RECURSIVE FillHands(_, _, _)
\* for h in player.hands: while len(h.cards) < 2: h.add_card(self._draw_card())
FillHands(hs, i, d) ==
    IF i > Len(hs) THEN [hands |-> hs, deck |-> d, error |-> "none"]
    ELSE IF Len(hs[i].cards) < 2
    THEN LET r == draw_card(d)
         IN  IF r.error # "none"
             THEN [hands |-> hs, deck |-> d, error |-> r.error]
             ELSE FillHands([hs EXCEPT ![i] = add_card(@, r.card)], i, r.deck)
    ELSE FillHands(hs, i + 1, d)

\* the condition of the dealer's while loop (blackjack.py:318)
HouseMustDraw(h) == score(h) <= 16 \/ (score(h) <= 17 /\ is_soft_hand(h))

\* a plausible slip: the win is tested before the blackjack, so that a
\* natural 21 that beats the dealer is paid as an ordinary win
PayoutWinFirst(h, hs) ==
    IF h.is_surrendered THEN BUY_IN_COST \div 2
    ELSE IF \/ (score(hs) < score(h) /\ score(h) <= 21)
            \/ (score(hs) > 21 /\ 21 >= score(h))
    THEN (IF h.is_double_down THEN BUY_IN_COST * 4 ELSE BUY_IN_COST * 2)
    ELSE IF score(h) = 21 /\ is_blackjack(h) THEN 3 * BUY_IN_COST
    ELSE IF score(hs) = score(h) /\ score(h) <= 21
    THEN (IF ~h.is_double_down THEN BUY_IN_COST ELSE BUY_IN_COST * 2)
    ELSE 0

\* what settlement adds for hand h against the house hand hs (325-332);
\* 0.5 * BUY_IN_COST is exact, BUY_IN_COST being even
Payout(h, hs) ==
    IF h.is_surrendered THEN BUY_IN_COST \div 2
    ELSE IF score(h) = 21 /\ is_blackjack(h) THEN 3 * BUY_IN_COST
    ELSE IF \/ (score(hs) < score(h) /\ score(h) <= 21)
            \/ (score(hs) > 21 /\ 21 >= score(h))
    THEN (IF h.is_double_down THEN BUY_IN_COST * 4 ELSE BUY_IN_COST * 2)
    ELSE IF score(hs) = score(h) /\ score(h) <= 21
    THEN (IF ~h.is_double_down THEN BUY_IN_COST ELSE BUY_IN_COST * 2)
    ELSE 0

RECURSIVE SumSeq(_)
SumSeq(q) == IF q = <<>> THEN 0 ELSE Head(q) + SumSeq(Tail(q))

\* a plausible slip: a balance equal to the ante does not pay it
PaysStrict(c) == c > BUY_IN_COST

\* player.coins >= self.BUY_IN_COST (244, 247)
Pays(c) == c >= BUY_IN_COST

\* every order random.shuffle(self.players) may leave
Orders(order) ==
    {q \in [1..Len(order) -> {order[i] : i \in 1..Len(order)}] :
        \A i, j \in 1..Len(order) : i # j => q[i] # q[j]}

\* the hands dealt to, in order (252-258): 0 stands for the house
DealTargets(active) == active \o <<0>> \o active

\* the cards target t holds once cards have gone to the first targets
DealtTo(t, targets, cards) ==
    LET Mine(j) == targets[j] = t
        idx == SelectSeq([j \in 1..Len(cards) |-> j], Mine)
    IN  [k \in 1..Len(idx) |-> cards[idx[k]]]

(***************************************************************************)
(* Spec: a game in progress.  The deck is created once per game and never  *)
(* refilled (start_game, 211), so between two rounds it holds what the     *)
(* rounds before left: Init takes a pile of PileLen cards in any order,    *)
(* no card in more copies than the game has packs, and balances that       *)
(* rounds of play lead to from PLAYER_START_COINS.                         *)
(***************************************************************************)
\* view.ask_decks_count()
DecksInGame == 4

RoundCards == {Card(v, "SPADES") : v \in {"ACE", "6", "7", "KING"}}

\* one balance below the ante and one that pays it; play_round compares a
\* balance with the ante and nothing else
CoinChoices == {5, 10}

Piles ==
    {q \in [1..PileLen -> RoundCards] :
        \A c \in RoundCards :
            Cardinality({i \in 1..PileLen : q[i] = c}) <= DecksInGame}

Init ==
    /\ NoHand
    /\ op = "init"
    /\ card = NoCard
    /\ drawn = 0
    /\ remote = "none"
    /\ players = [i \in PlayerIds |-> i]
    /\ coins \in [PlayerIds -> CoinChoices]
    /\ hands = [p \in PlayerIds |-> <<>>]
    /\ active_players = <<>>
    /\ house = NewHand(<<>>)
    /\ house_cards = <<>>
    /\ \E pile \in Piles : deck = NewDeck(DecksInGame, TRUE, pile)
    /\ pc = "idle"
    /\ pi = 0
    /\ hi = 0
    /\ si = 0
    /\ move = None
    /\ result = None
    /\ error = "none"
    /\ paid = [p \in PlayerIds |-> <<>>]
    /\ arg = 0
    /\ tick = 0
    /\ turns = [p \in PlayerIds |-> <<>>]
    /\ notified = [p \in PlayerIds |-> 0]

CurPlayer == active_players[pi]

CurHand == hands[CurPlayer][hi]

\* an uncaught exception leaves play_round
Raised(e) == pc' = "raised" /\ error' = e /\ UNCHANGED <<pi, hi>>

\* player.play_move(player.hands[0]) (273): the hand passed is the player's
\* first, whichever hand the loop is at
Ask == arg' = 1

\* a plausible slip: the for loop runs over the hands the player had when
\* it began (for hand in player.hands[:]), the one hand of join_table
EndOfMoveOverCopy(hs, playing) ==
    /\ error' = error
    /\ IF playing /\ ~(score(hs[hi]) > 21)
       THEN /\ pc' = "turn" /\ pi' = pi /\ hi' = hi
            /\ tick' = 1 - tick
            /\ turns' = turns
       ELSE /\ tick' = 0
            /\ turns' = [turns EXCEPT ![CurPlayer] = Append(@, hi)]
            /\ IF pi < Len(active_players)
               THEN pc' = "turn" /\ pi' = pi + 1 /\ hi' = 1
               ELSE pc' = "reveal" /\ pi' = 0 /\ hi' = 0

\* the end of one pass of the while loop (299-300), then the for loops:
\* hs are the player's hands after the move
EndOfMove(hs, playing) ==
    /\ error' = error
    /\ IF playing /\ ~(score(hs[hi]) > 21)
       THEN /\ pc' = "turn" /\ pi' = pi /\ hi' = hi
            /\ tick' = 1 - tick
            /\ turns' = turns
       ELSE /\ tick' = 0
            /\ turns' = [turns EXCEPT ![CurPlayer] = Append(@, hi)]
            /\ IF hi < Len(hs)
               THEN pc' = "turn" /\ pi' = pi /\ hi' = hi + 1
               ELSE IF pi < Len(active_players)
               THEN pc' = "turn" /\ pi' = pi + 1 /\ hi' = 1
               ELSE pc' = "reveal" /\ pi' = 0 /\ hi' = 0

\* play_round up to the first decision (239-265)
PlayRound ==
    /\ pc = "idle"
    /\ \E order \in Orders(players) :
          /\ players' = order
          /\ IF \A p \in PlayerIds : coins[p] < BUY_IN_COST
             THEN /\ result' = "False"
                  /\ UNCHANGED <<coins, hands, active_players, house,
                                 house_cards, deck, pc, pi, hi, move, error,
                                 paid, arg, tick, turns, notified>>
             ELSE LET Joins(p) == Pays(coins[p])
                      active == SelectSeq(order, Joins)
                      targets == DealTargets(active)
                      r == DrawCards(deck, Len(targets))
                  IN  /\ active_players' = active
                      /\ coins' = [p \in PlayerIds |->
                                     IF Joins(p) THEN coins[p] - BUY_IN_COST
                                     ELSE coins[p]]
                      /\ hands' = [p \in PlayerIds |->
                                     IF Joins(p)
                                     THEN <<NewHand(DealtTo(p, targets, r.cards))>>
                                     ELSE hands[p]]
                      /\ house' = NewHand(DealtTo(0, targets, r.cards))
                      /\ deck' = r.deck
                      /\ paid' = [p \in PlayerIds |-> <<>>]
                      /\ move' = None
                      /\ result' = None
                      /\ arg' = 0
                      /\ tick' = 0
                      /\ turns' = [p \in PlayerIds |-> <<>>]
                      /\ notified' = [p \in PlayerIds |-> 0]
                      /\ IF r.error = "none"
                         THEN /\ house_cards' = house'.cards
                              /\ pc' = "turn" /\ pi' = 1 /\ hi' = 1
                              /\ error' = "none"
                         ELSE /\ house_cards' = house_cards
                              /\ Raised(r.error)
    /\ UNCHANGED <<si, handVars, deckVars>>

\* Move.HIT (274-275)
Hit ==
    /\ pc = "turn"
    /\ move' = "HIT"
    /\ Ask
    /\ LET r == draw_card(deck)
       IN  /\ deck' = r.deck
           /\ IF r.error # "none"
              THEN Raised(r.error) /\ UNCHANGED <<hands, tick, turns>>
              ELSE LET hs == [hands[CurPlayer] EXCEPT ![hi] = add_card(@, r.card)]
                   IN  /\ hands' = [hands EXCEPT ![CurPlayer] = hs]
                       /\ EndOfMove(hs, TRUE)
    /\ UNCHANGED <<players, coins, active_players, house, house_cards, si,
                   result, paid, notified, handVars, deckVars>>

\* Move.SPLIT (276-284)
Split ==
    /\ pc = "turn"
    /\ move' = "SPLIT"
    /\ Ask
    /\ IF can_split(CurHand)
       THEN LET f == FillHands(split_hand(hands[CurPlayer], hi), 1, deck)
            IN  /\ hands' = [hands EXCEPT ![CurPlayer] = f.hands]
                /\ coins' = [coins EXCEPT ![CurPlayer] = @ - BUY_IN_COST]
                /\ deck' = f.deck
                /\ IF f.error # "none"
                   THEN Raised(f.error) /\ UNCHANGED <<tick, turns>>
                   ELSE EndOfMove(f.hands, TRUE)
       ELSE /\ UNCHANGED <<hands, coins, deck>>
            /\ EndOfMove(hands[CurPlayer], TRUE)
    /\ UNCHANGED <<players, active_players, house, house_cards, si, result,
                   paid, notified, handVars, deckVars>>

\* Move.DOUBLE_DOWN (285-288)
DoubleDown ==
    /\ pc = "turn"
    /\ move' = "DOUBLE_DOWN"
    /\ Ask
    /\ coins' = [coins EXCEPT ![CurPlayer] = @ - BUY_IN_COST]
    /\ LET r == draw_card(deck)
       IN  /\ deck' = r.deck
           /\ IF r.error # "none"
              THEN Raised(r.error) /\ UNCHANGED <<hands, tick, turns>>
              ELSE LET hs == [hands[CurPlayer] EXCEPT
                                ![hi] = double_down(@, r.card)]
                   IN  /\ hands' = [hands EXCEPT ![CurPlayer] = hs]
                       /\ EndOfMove(hs, FALSE)
    /\ UNCHANGED <<players, active_players, house, house_cards, si, result,
                   paid, notified, handVars, deckVars>>

\* Move.STAND (289-290)
Stand ==
    /\ pc = "turn"
    /\ move' = "STAND"
    /\ Ask
    /\ EndOfMove(hands[CurPlayer], FALSE)
    /\ UNCHANGED <<players, coins, hands, active_players, house, house_cards,
                   deck, si, result, paid, notified, handVars, deckVars>>

\* Move.SURRENDER (291-293)
Surrender ==
    /\ pc = "turn"
    /\ move' = "SURRENDER"
    /\ Ask
    /\ LET hs == [hands[CurPlayer] EXCEPT ![hi].is_surrendered = TRUE]
       IN  /\ hands' = [hands EXCEPT ![CurPlayer] = hs]
           /\ EndOfMove(hs, FALSE)
    /\ UNCHANGED <<players, coins, active_players, house, house_cards, deck,
                   si, result, paid, notified, handVars, deckVars>>

\* anything else the policy returns (294-296)
IllegalMove ==
    /\ pc = "turn"
    /\ move' = "OTHER"
    /\ Ask
    /\ EndOfMove(hands[CurPlayer], FALSE)
    /\ UNCHANGED <<players, coins, hands, active_players, house, house_cards,
                   deck, si, result, paid, notified, handVars, deckVars>>

\* the house gets its second card, straight from the deck (303-307);
\* Hand(house_cards) keeps the list, so house_cards follows the hand
Reveal ==
    /\ pc = "reveal"
    /\ LET r == draw_card(deck)
       IN  /\ deck' = r.deck
           /\ IF r.error # "none"
              THEN /\ house' = NewHand(house_cards)
                   /\ Raised(r.error)
              ELSE /\ house' = add_card(NewHand(house_cards), r.card)
                   /\ pc' = "dealer"
                   /\ UNCHANGED <<pi, hi, error>>
    /\ house_cards' = house'.cards
    /\ UNCHANGED <<players, coins, hands, active_players, si, move, result,
                   paid, arg, tick, turns, notified, handVars, deckVars>>

\* one pass of the dealer's loop (318-320)
HouseDraw ==
    /\ pc = "dealer"
    /\ HouseMustDraw(house)
    /\ LET r == draw_card(deck)
       IN  /\ deck' = r.deck
           /\ IF r.error # "none"
              THEN Raised(r.error) /\ UNCHANGED house
              ELSE /\ house' = add_card(house, r.card)
                   /\ UNCHANGED <<pc, pi, hi, error>>
    /\ house_cards' = house'.cards
    /\ UNCHANGED <<players, coins, hands, active_players, si, move, result,
                   paid, arg, tick, turns, notified, handVars, deckVars>>

\* the dealer's loop ends
HouseStand ==
    /\ pc = "dealer"
    /\ ~HouseMustDraw(house)
    /\ pc' = "settle"
    /\ si' = 1
    /\ UNCHANGED <<players, coins, hands, active_players, house, house_cards,
                   deck, pi, hi, move, result, error, paid, arg, tick, turns,
                   notified, handVars, deckVars>>

\* one pass of the settlement loop (323-334): the player's hands are paid,
\* then the player's strategy is told the game ended; after the last
\* player play_round returns True
Settle ==
    /\ pc = "settle"
    /\ LET p == active_players[si]
           pays == [i \in 1..Len(hands[p]) |-> Payout(hands[p][i], house)]
       IN  /\ coins' = [coins EXCEPT ![p] = @ + SumSeq(pays)]
           /\ paid' = [paid EXCEPT ![p] = pays]
           /\ notified' = [notified EXCEPT ![p] = @ + 1]
    /\ IF si < Len(active_players)
       THEN si' = si + 1 /\ UNCHANGED <<pc, result>>
       ELSE si' = 0 /\ pc' = "idle" /\ result' = "True"
    /\ UNCHANGED <<players, hands, active_players, house, house_cards, deck,
                   pi, hi, move, error, arg, tick, turns, handVars, deckVars>>

Next ==
    \/ PlayRound
    \/ Hit
    \/ Split
    \/ DoubleDown
    \/ Stand
    \/ Surrender
    \/ IllegalMove
    \/ Reveal
    \/ HouseDraw
    \/ HouseStand
    \/ Settle

Spec == Init /\ [][Next]_vars

(***************************************************************************)
(* SpecDeep: the same rounds on a longer pile of fewer values, long enough *)
(* for a player to split a hand and then split again.  SpecLive is the     *)
(* same with one player left who can pay the ante, and adds that the       *)
(* interpreter goes on running play_round as long as it has a step to      *)
(* take.                                                                   *)
(***************************************************************************)
\* the cards left in the deck when SpecDeep starts
DeepPileLen == 8

DeepCards == {Card(v, "SPADES") : v \in {"6", "KING"}}

DeepPiles ==
    {q \in [1..DeepPileLen -> DeepCards] :
        \A c \in DeepCards :
            Cardinality({i \in 1..DeepPileLen : q[i] = c}) <= DecksInGame}

InitDeep ==
    /\ NoHand
    /\ NoDeck
    /\ players = [i \in PlayerIds |-> i]
    /\ coins \in [PlayerIds -> CoinChoices]
    /\ hands = [p \in PlayerIds |-> <<>>]
    /\ active_players = <<>>
    /\ house = NewHand(<<>>)
    /\ house_cards = <<>>
    /\ \E pile \in DeepPiles : deck = NewDeck(DecksInGame, TRUE, pile)
    /\ pc = "idle"
    /\ pi = 0
    /\ hi = 0
    /\ si = 0
    /\ move = None
    /\ result = None
    /\ error = "none"
    /\ paid = [p \in PlayerIds |-> <<>>]
    /\ arg = 0
    /\ tick = 0
    /\ turns = [p \in PlayerIds |-> <<>>]
    /\ notified = [p \in PlayerIds |-> 0]

SpecDeep == InitDeep /\ [][Next]_vars

InitLive ==
    /\ InitDeep
    /\ Cardinality({p \in PlayerIds : Pays(coins[p])}) = 1

SpecLive == InitLive /\ [][Next]_vars /\ WF_vars(Next)


(***************************************************************************)
(* C1. At settlement, for every hand of every active player, with ante A,  *)
(* hand score s and dealer score d, the amount added to the owner's        *)
(* balance is, in this order of priority: A/2 if the hand is surrendered;  *)
(* 3A if it has exactly 2 cards and s = 21; 4A if doubled down, else 2A,   *)
(* if s <= 21 and (d > 21 or s > d); 2A if doubled down, else A, if s = d  *)
(* and both <= 21; otherwise 0.  A busted hand receives 0 even when the    *)
(* dealer busts too.                                                       *)
(***************************************************************************)
ClaimedPayout(h, hs) ==
    LET A == BUY_IN_COST
        s == score(h)
        d == score(hs)
    IN  IF h.is_surrendered THEN A \div 2
        ELSE IF Len(h.cards) = 2 /\ s = 21 THEN 3 * A
        ELSE IF s <= 21 /\ (d > 21 \/ s > d)
        THEN (IF h.is_double_down THEN 4 * A ELSE 2 * A)
        ELSE IF s = d /\ s <= 21 /\ d <= 21
        THEN (IF h.is_double_down THEN 2 * A ELSE A)
        ELSE 0

ClaimedPayouts(p) ==
    [i \in 1..Len(hands[p]) |-> ClaimedPayout(hands[p][i], house)]

ClaimedDealerDraws(h) ==
    score(h) <= 16 \/ (score(h) = 17 /\ RefSoft(h.cards))

C2_DealerDrawRule ==
    [][pc = "dealer" => ((pc' # "settle") <=> ClaimedDealerDraws(house))]_vars

(***************************************************************************)
(* C4. At the end of a round (after settlement) every player's balance is  *)
(* non-negative: the SPLIT and DOUBLE_DOWN fees never leave a player below *)
(* 0.                                                                      *)
(***************************************************************************)
C4_BalanceNonNegative ==
    (pc = "idle" /\ result = "True") => \A p \in PlayerIds : coins[p] >= 0

(***************************************************************************)
(* C5. A DOUBLE_DOWN requested on a hand that does not have exactly 2      *)
(* cards is rejected: no ante is deducted, no card is drawn into the hand  *)
(* and is_double_down stays false.                                         *)
(***************************************************************************)
C5_DoubleDownNeedsTwoCards ==
    [][(pc = "turn" /\ move' = "DOUBLE_DOWN" /\ Len(CurHand.cards) # 2) =>
          /\ coins' = coins
          /\ deck' = deck
          /\ hands'[CurPlayer][hi].cards = CurHand.cards
          /\ ~hands'[CurPlayer][hi].is_double_down]_vars

(***************************************************************************)
(* C6. SPLIT takes effect only on a hand of exactly 2 cards of equal rank. *)
(* On any other hand the request changes nothing (hands, balances, deck)   *)
(* and the hand stays in play.  On a splittable hand the player gains      *)
(* exactly one new hand, holding one of the two original cards, the        *)
(* balance drops by exactly one ante, and one replacement card is drawn    *)
(* into each of the two hands, so that both hold 2 cards.                  *)
(***************************************************************************)
SplitEffects ==
    LET p == CurPlayer
        h == CurHand
        n == Len(hands[p])
    IN  IF ~(Len(h.cards) = 2 /\ h.cards[1].value = h.cards[2].value)
        THEN /\ hands' = hands
             /\ coins' = coins
             /\ deck' = deck
             /\ pc' = "turn" /\ pi' = pi /\ hi' = hi
        ELSE /\ Len(hands'[p]) = n + 1
             /\ \A q \in PlayerIds \ {p} : hands'[q] = hands[q]
             /\ \A i \in (1..n) \ {hi} : hands'[p][i] = hands[p][i]
             /\ hands'[p][hi].cards[1] = h.cards[1]
             /\ hands'[p][n + 1].cards[1] = h.cards[2]
             /\ Len(hands'[p][hi].cards) = 2
             /\ Len(hands'[p][n + 1].cards) = 2
             /\ coins' = [coins EXCEPT ![p] = @ - BUY_IN_COST]
             /\ Len(deck'.backup_deck) = Len(deck.backup_deck) - 2

C6_SplitFrame ==
    [][(pc = "turn" /\ move' = "SPLIT") => SplitEffects]_vars

\* what holds of C6 on the code: the same, for a split that finds its two
\* replacement cards in the deck
SplitEffectsWhenSupplied ==
    [][(pc = "turn" /\ move' = "SPLIT"
        /\ (can_split(CurHand) => Len(deck.backup_deck) >= 2)) =>
          SplitEffects]_vars

(***************************************************************************)
(* C7. SURRENDER is accepted only as the first decision on a fresh 2-card  *)
(* hand: on a hand that has already received a card through HIT, a         *)
(* SURRENDER request does not set is_surrendered, and the hand is not      *)
(* settled at half the ante.                                               *)
(***************************************************************************)
C7_SurrenderOnlyOnFreshHand ==
    [][(pc = "turn" /\ move' = "SURRENDER" /\ Len(CurHand.cards) # 2) =>
          ~hands'[CurPlayer][hi].is_surrendered]_vars

(***************************************************************************)
(* C10. Called while every player's balance is below the ante, play_round  *)
(* returns False without dealing: no card is drawn, no balance changes, no *)
(* hand is reset or given a card.  Called while some player can pay the    *)
(* ante, it returns True.                                                  *)
(***************************************************************************)
CallEnded == pc = "raised" \/ (pc = "idle" /\ result # None)

\* the all-broke branch of a call as a step
GameOverFrame ==
    [][(pc = "idle" /\ \A p \in PlayerIds : coins[p] < BUY_IN_COST) =>
          /\ result' = "False"
          /\ UNCHANGED <<coins, hands, deck, house, pc>>]_vars

C10_ReturnValue ==
    CallEnded =>
        \/ result = "False" /\ \A p \in PlayerIds : coins[p] < BUY_IN_COST
        \/ result = "True"

(***************************************************************************)
(* C13. A round never aborts because the supply runs out: on one deck,     *)
(* created once per game, a draw that finds the supply empty during Deal,  *)
(* PlayerTurns or DealerTurn makes play_round raise no error.              *)
(***************************************************************************)
C13_NoAbortOnExhaustion ==
    pc # "raised" /\ error = "none"

(***************************************************************************)
(* C14. For every decision policy, whatever sequence of actions it         *)
(* returns (legal, illegal such as SPLIT on an unsplittable hand, or       *)
(* unrecognized), the turn of each hand ends after finitely many           *)
(* decisions, so that the player turns of a round come to an end.          *)
(***************************************************************************)
C14_EveryTurnEnds ==
    (pc = "turn") ~> (pc # "turn")

\* what holds of C14 on the code: an unrecognized action ends the turn of
\* the hand and changes no hand, no balance and not the deck
UnrecognizedIsStand ==
    [][(pc = "turn" /\ move' = "OTHER") =>
          /\ hands' = hands
          /\ coins' = coins
          /\ deck' = deck
          /\ turns'[CurPlayer] = Append(turns[CurPlayer], hi)
          /\ ~(pc' = "turn" /\ pi' = pi /\ hi' = hi)]_vars

(***************************************************************************)
(* C15. Deal completes before any player decision: when the first decision *)
(* of the round is requested, every active hand holds exactly 2 cards and  *)
(* the dealer's hand holds exactly 2 cards already drawn from the supply.  *)
(***************************************************************************)
C15_DealCompleteBeforeDecisions ==
    (pc = "turn" /\ arg = 0) =>
        /\ \A i \in 1..Len(active_players) :
              /\ Len(hands[active_players[i]]) = 1
              /\ Len(hands[active_players[i]][1].cards) = 2
        /\ Len(house.cards) = 2

\* what holds of C15 on the code: at the first decision every active hand
\* holds 2 cards and the dealer 1, and the dealer's second card is drawn
\* when the player turns are over
DealerSecondCardAfterTurns ==
    /\ pc = "turn" =>
          /\ Len(house.cards) = 1
          /\ arg = 0 => \A i \in 1..Len(active_players) :
                           /\ Len(hands[active_players[i]]) = 1
                           /\ Len(hands[active_players[i]][1].cards) = 2
    /\ pc = "dealer" => Len(house.cards) >= 2

(***************************************************************************)
(* C16. Whenever the turn loop asks the policy for a decision, the hand    *)
(* passed to the policy as its own hand is the hand being played; after a  *)
(* split, the decisions for the player's second or later hand are asked    *)
(* with that hand and not with the player's first hand.                    *)
(***************************************************************************)
C16_PolicyGivenCurrentHand ==
    [][pc = "turn" => arg' = hi]_vars

(***************************************************************************)
(* C17. Notification of round end happens only after all settlement: once  *)
(* any player's policy has received on_game_end in a round, no player's    *)
(* balance changes again in that round.                                    *)
(***************************************************************************)
C17_NotifiedAfterAllSettlement ==
    [][(pc = "settle" /\ \E p \in PlayerIds : notified[p] > 0) =>
          coins' = coins]_vars

\* what holds of C17 on the code: in a completed round every active player
\* was notified exactly once, after the payment of that player's own hands
NotifiedOncePerActivePlayer ==
    (pc = "idle" /\ result = "True") =>
        \A p \in PlayerIds :
            notified[p] = IF \E i \in 1..Len(active_players) :
                                active_players[i] = p
                          THEN 1 ELSE 0

(***************************************************************************)
(* C18. Every hand a player owns at the end of the player turns, each hand *)
(* created by a SPLIT during the player's own turn loop included (also by  *)
(* a split of an already split-off hand), has had its turn run to the end  *)
(* before the dealer draws; no hand is skipped and none is played twice.   *)
(***************************************************************************)
C18_EveryHandPlayedOnce ==
    (pc \in {"reveal", "dealer", "settle"} \/ (pc = "idle" /\ result = "True")) =>
        \A i \in 1..Len(active_players) :
            LET p == active_players[i]
            IN  turns[p] = [k \in 1..Len(hands[p]) |-> k]

\* the dealer draws after a player split twice, the second time the hand
\* that the first split made, and played the three hands
C18_Witness ==
    /\ pc = "dealer"
    /\ \E p \in PlayerIds :
          /\ Len(hands[p]) = 3
          /\ turns[p] = <<1, 2, 3>>
          /\ Len(house.cards) >= 2

(***************************************************************************)
(* C19. A busted hand is terminal: HIT appends exactly one card to the     *)
(* hand being played, and as soon as a card addition brings a player's     *)
(* hand above 21, no further decision is asked for that hand and no        *)
(* further card is added to it in the round.                               *)
(***************************************************************************)
BustIsTerminal ==
    /\ pc' = "turn" => score(hands'[active_players'[pi']][hi']) <= 21
    /\ pc # "idle" =>
          \A p \in PlayerIds : \A h \in 1..Len(hands[p]) :
              score(hands[p][h]) > 21 => hands'[p][h] = hands[p][h]

C19_BustedHandIsTerminal ==
    [][/\ BustIsTerminal
       /\ (pc = "turn" /\ move' = "HIT") =>
              \E c \in RoundCards :
                 /\ Len(hands'[CurPlayer]) = Len(hands[CurPlayer])
                 /\ hands'[CurPlayer][hi].cards = Append(CurHand.cards, c)]_vars

\* what holds of C19 on the code: the same, for a HIT that finds a card in
\* the deck
BustedHandIsTerminalWhenSupplied ==
    [][/\ BustIsTerminal
       /\ (pc = "turn" /\ move' = "HIT" /\ Len(deck.backup_deck) > 0) =>
              /\ Len(hands'[CurPlayer]) = Len(hands[CurPlayer])
              /\ hands'[CurPlayer][hi].cards =
                     Append(CurHand.cards, deck.backup_deck[Len(deck.backup_deck)])
              /\ \A h \in 1..Len(hands[CurPlayer]) :
                    h # hi => hands'[CurPlayer][h] = hands[CurPlayer][h]]_vars

(***************************************************************************)
(* C20. In the ante collection every player whose balance is >= the ante   *)
(* pays exactly one ante and gets a single fresh hand, and exactly these   *)
(* players form the round's active list; a player whose balance is below   *)
(* the ante is excluded for the whole round: the round leaves the balance  *)
(* unchanged, deals the player no card, gives the player no turn and no    *)
(* payout, and the player stays in the game's player list.                 *)
(***************************************************************************)
InList(q, p) == \E i \in 1..Len(q) : q[i] = p

AnteCollected ==
    /\ \A p \in PlayerIds :
          IF coins[p] >= BUY_IN_COST
          THEN /\ coins'[p] = coins[p] - BUY_IN_COST
               /\ Len(hands'[p]) = 1
               /\ Len(hands'[p][1].cards) <= 2
               /\ ~hands'[p][1].is_double_down
               /\ ~hands'[p][1].is_surrendered
               /\ Cardinality({i \in 1..Len(active_players') :
                                  active_players'[i] = p}) = 1
          ELSE /\ coins'[p] = coins[p]
               /\ hands'[p] = hands[p]
               /\ ~InList(active_players', p)
    /\ \A p \in PlayerIds : InList(players', p)
    /\ Len(players') = NumPlayers

ExcludedUntouched ==
    \A p \in PlayerIds :
        ~InList(active_players, p) =>
            /\ coins'[p] = coins[p]
            /\ hands'[p] = hands[p]
            /\ paid'[p] = <<>>
            /\ turns'[p] = <<>>
            /\ InList(players', p)
            /\ pc' = "turn" => active_players'[pi'] # p

C20_AnteCollection ==
    [][/\ (pc = "idle" /\ \E p \in PlayerIds : coins[p] >= BUY_IN_COST) =>
              AnteCollected
       /\ pc \notin {"idle", "raised"} => ExcludedUntouched]_vars

\* a round played to its end by one player while the other was below the
\* ante
C20_Witness ==
    /\ pc = "idle"
    /\ result = "True"
    /\ \E p, q \in PlayerIds :
          /\ active_players = <<p>>
          /\ q # p
          /\ coins[q] < BUY_IN_COST
          /\ hands[q] = <<>>
          /\ paid[q] = <<>>
          /\ notified[p] = 1

====
